---- MODULE Spec2Model ----
(***************************************************************************)
(* Model of convert_to_wordpress.py: the static-site to WordPress-theme    *)
(* converter (asset locator, asset relocator, document rewriter, main),    *)
(* and of tools/generate_webp.py.                                          *)
(*                                                                         *)
(* Strings are sequences of tokens.  A token is one punctuation character  *)
(* (".", "/", "\\", ":", "#", " ") or a maximal run of other characters    *)
(* ("css", "site", "rmk-theme", ...).  Every string operation of the       *)
(* source that the model uses (lstrip, startswith, replace, Path.name,     *)
(* Path.suffix, lower) acts only at punctuation characters, so on token    *)
(* sequences it computes what the source computes on characters.           *)
(***************************************************************************)
EXTENDS Integers, Sequences, FiniteSets, TLC

(***************************************************************************)
(* Bounds of the model.                                                    *)
(***************************************************************************)
\* attributes in a fragment handed to the rewriter on its own
MaxAttrs == 2
\* entries of a mapping handed to the rewriter on its own
MaxMapLen == 2
\* src/href references in an index.html of the asset pipeline
MaxRefs == 2
\* top-level children of the body in an index.html of the decomposition
MaxKids == 3

\* sequences over S of length at most n
SeqsUpTo(S, n) == UNION {[1..m -> S] : m \in 0..n}

(***************************************************************************)
(* String helpers (Python str methods).                                    *)
(***************************************************************************)
RECURSIVE lstrip(_, _)
\* str.lstrip(chars): drop every leading character that is in chars
lstrip(s, chars) ==
    IF s # <<>> /\ Head(s) \in chars THEN lstrip(Tail(s), chars) ELSE s

RECURSIVE rstrip(_, _)
rstrip(s, chars) ==
    IF s # <<>> /\ s[Len(s)] \in chars
    THEN rstrip(SubSeq(s, 1, Len(s) - 1), chars) ELSE s

\* str.strip(): whitespace off both ends
strip(s) == rstrip(lstrip(s, {" "}), {" "})

startswith(s, p) == Len(s) >= Len(p) /\ SubSeq(s, 1, Len(p)) = p

RECURSIVE replace(_, _, _)
\* str.replace(old, new): leftmost, non-overlapping occurrences
replace(s, old, new) ==
    IF s = <<>> THEN <<>>
    ELSE IF startswith(s, old)
         THEN new \o replace(SubSeq(s, Len(old) + 1, Len(s)), old, new)
         ELSE <<Head(s)>> \o replace(Tail(s), old, new)

RECURSIVE contains(_, _)
\* old in s
contains(s, old) ==
    IF Len(s) < Len(old) THEN FALSE
    ELSE startswith(s, old) \/ contains(Tail(s), old)

\* str.lower() on one token: the upper-case words of the model's vocabulary
lowerTok(t) ==
    CASE t = "CSS" -> "css"
      [] t = "Y" -> "y"
      [] t = "JS" -> "js"
      [] t = "STYLE" -> "style"
      [] t = "APP" -> "app"
      [] t = "PNG" -> "png"
      [] OTHER -> t

lower(s) == [i \in 1..Len(s) |-> lowerTok(s[i])]

(***************************************************************************)
(* pathlib.PurePosixPath: parts, name, suffix, str.                        *)
(***************************************************************************)
RECURSIVE SplitSlash(_, _)
\* the segments of s between "/" characters; cur is the segment being read
SplitSlash(s, cur) ==
    IF s = <<>> THEN <<cur>>
    ELSE IF Head(s) = "/" THEN <<cur>> \o SplitSlash(Tail(s), <<>>)
         ELSE SplitSlash(Tail(s), Append(cur, Head(s)))

\* Path(s).parts of a relative path: empty and "." segments are dropped,
\* ".." segments are kept
PathParts(s) ==
    SelectSeq(SplitSlash(s, <<>>), LAMBDA seg : seg # <<>> /\ seg # <<".">>)

\* Path(s).name
PathName(s) ==
    LET p == PathParts(s) IN IF p = <<>> THEN <<>> ELSE p[Len(p)]

\* the index of the last "." of a name, 0 when there is none (str.rfind + 1)
LastDot(n) ==
    LET ds == {i \in 1..Len(n) : n[i] = "."}
    IN  IF ds = {} THEN 0 ELSE CHOOSE i \in ds : \A j \in ds : j <= i

\* Path(s).suffix: from the last dot of the name, unless the dot is the
\* first or the last character of the name
PathSuffix(s) ==
    LET n == PathName(s)
        i == LastDot(n)
    IN  IF 1 < i /\ i < Len(n) THEN SubSeq(n, i, Len(n)) ELSE <<>>

RECURSIVE JoinPath(_)
\* str(Path(*parts)) / as_posix(): the parts joined by "/"
JoinPath(parts) ==
    IF parts = <<>> THEN <<>>
    ELSE IF Len(parts) = 1 THEN parts[1]
         ELSE parts[1] \o <<"/">> \o JoinPath(Tail(parts))

(***************************************************************************)
(* is_remote                                                               *)
(***************************************************************************)
is_remote(url) ==
    IF url = <<>> THEN FALSE
    ELSE LET u == strip(url)
         IN  \/ startswith(u, <<"http", ":", "/", "/">>)
             \/ startswith(u, <<"https", ":", "/", "/">>)
             \/ startswith(u, <<"/", "/">>)
             \/ startswith(u, <<"mailto", ":">>)
             \/ startswith(u, <<"tel", ":">>)
             \/ startswith(u, <<"#">>)

(***************************************************************************)
(* replace_asset_paths_in_html.  A fragment is a sequence of items; an     *)
(* item of kind "attr" is one match of the pattern                         *)
(*   (src|href)=("|')([^"']+)("|')                                         *)
(* with its groups, any other item is text the pattern does not match.     *)
(* A mapping is a dict in insertion order: a sequence of entries [k, v]    *)
(* with distinct keys.                                                     *)
(***************************************************************************)
\* "<?php echo get_template_directory_uri(); ?>"
PHP == "<?php echo get_template_directory_uri(); ?>"

HasKey(mapping, key) == \E i \in 1..Len(mapping) : mapping[i].k = key

Lookup(mapping, key) ==
    mapping[CHOOSE i \in 1..Len(mapping) : mapping[i].k = key].v

\* the fallback taking the last entry whose key has this base name
LastByBasename(mapping, basename) ==
    LET hits == {i \in 1..Len(mapping) : PathName(mapping[i].k) = basename}
    IN  IF hits = {} THEN <<>>
        ELSE mapping[CHOOSE i \in hits : \A j \in hits : j <= i].v

\* the loop of the basename fallback: the value of the first entry, in
\* insertion order, whose key has this base name; <<>> (None) without one
FirstByBasename(mapping, basename) ==
    LET hits == {i \in 1..Len(mapping) : PathName(mapping[i].k) = basename}
    IN  IF hits = {} THEN <<>>
        ELSE mapping[CHOOSE i \in hits : \A j \in hits : i <= j].v

\* the attribute text the replacement function returns for a found value
Rewritten(m, new) ==
    [m EXCEPT !.val = <<PHP, "/", "assets", "/">> \o lstrip(new, {"/"}),
              !.quote2 = m.quote]

\* the key the replacement function looks up: val.lstrip('./') with the
\* backslashes turned into slashes
LookupKey(val) ==
    LET key == lstrip(val, {".", "/"})
    IN  [i \in 1..Len(key) |-> IF key[i] = "\\" THEN "/" ELSE key[i]]

repl(m, mapping) ==
    LET key == LookupKey(m.val)
    IN  IF HasKey(mapping, key) THEN Rewritten(m, Lookup(mapping, key))
        ELSE LET found == FirstByBasename(mapping, PathName(key))
             IN  IF found # <<>> THEN Rewritten(m, found) ELSE m

replace_asset_paths_in_html(html, mapping) ==
    [i \in 1..Len(html) |->
        IF html[i].kind = "attr" /\ html[i].val # <<>>
        THEN repl(html[i], mapping) ELSE html[i]]

\* an attribute occurrence as the pattern's groups
Attr(name, q, val) ==
    [kind |-> "attr", attr |-> name, quote |-> q, val |-> val, quote2 |-> q]

(***************************************************************************)
(* The mapping a conversion run builds for a key (copy_assets, then the    *)
(* normalisation of generate_theme).                                       *)
(***************************************************************************)
\* the output directory's name (--out default)
OutName == "rmk-theme"

\* lines 183-191: one value of the mapping, normalised
NormalizeValue(v) ==
    LET v1 == lstrip(v, {"/"})
        v2 == IF startswith(v1, <<OutName, "/">>)
              THEN SubSeq(v1, 3, Len(v1)) ELSE v1
    IN  IF startswith(v2, <<"assets", "/">>)
        THEN SubSeq(v2, 3, Len(v2)) ELSE v2

NormalizeMapping(mapping) ==
    [i \in 1..Len(mapping) |->
        [k |-> mapping[i].k, v |-> NormalizeValue(mapping[i].v)]]

(***************************************************************************)
(* The filesystem.  An absolute path is a sequence of segments, a segment  *)
(* a token sequence.  fs maps the path of every regular file to its        *)
(* content, dirs is the set of directories.  A pathlib path keeps its ".." *)
(* segments; the operating system resolves them when the path is used.     *)
(***************************************************************************)
DotDot == <<".", ".">>

\* site_dir = Path(args.site).resolve()
SiteDir == << <<"w">>, <<"site">> >>

\* out_dir = (site_dir / args.out).resolve()
OutDir == SiteDir \o << <<OutName>> >>

\* assets_dir = out_dir / 'assets'
AssetsDir == OutDir \o << <<"assets">> >>

\* no path: what resolution gives when a component is not a directory
NoPath == << <<>> >>

Parent(p) == IF p = <<>> THEN <<>> ELSE SubSeq(p, 1, Len(p) - 1)

IsUnder(p, root) == Len(p) >= Len(root) /\ SubSeq(p, 1, Len(root)) = root

RECURSIVE Walk(_, _, _)
\* path resolution by the operating system, from directory cur
Walk(cur, parts, D) ==
    IF parts = <<>> THEN cur
    ELSE IF cur \notin D THEN NoPath
    ELSE IF Head(parts) = DotDot THEN Walk(Parent(cur), Tail(parts), D)
    ELSE Walk(Append(cur, Head(parts)), Tail(parts), D)

Resolve(p, D) == Walk(<<>>, p, D)

\* Path.exists()
Exists(p, F, D) ==
    LET r == Resolve(p, D) IN r # NoPath /\ (r \in D \/ r \in DOMAIN F)

RECURSIVE MkdirWalk(_, _, _)
\* Path.mkdir(parents=True, exist_ok=True): every directory on the way is
\* made, ".." steps back
MkdirWalk(cur, parts, D) ==
    IF parts = <<>> THEN D
    ELSE LET nxt == IF Head(parts) = DotDot THEN Parent(cur)
                    ELSE Append(cur, Head(parts))
         IN  MkdirWalk(nxt, Tail(parts), D \cup {nxt})

MkdirP(p, D) == MkdirWalk(<<>>, p, D)

\* a file's content
Data(name) == [kind |-> "file", name |-> name]

\* the path of a file of the site given as a string relative to the site
SitePath(s) == SiteDir \o PathParts(s)

(***************************************************************************)
(* The parsed document (BeautifulSoup): a forest of nodes.                 *)
(***************************************************************************)
Elem(id, tag, attrs, kids) ==
    [kind |-> "elem", id |-> id, tag |-> tag, attrs |-> attrs, kids |-> kids]

\* a text node; ws: whitespace only
TextNode(id, ws) ==
    [kind |-> IF ws THEN "ws" ELSE "text", id |-> id, tag |-> "",
     attrs |-> <<>>, kids |-> <<>>]

CommentNode(id) ==
    [kind |-> "comment", id |-> id, tag |-> "", attrs |-> <<>>, kids |-> <<>>]

NoNode == [kind |-> "none", id |-> 0, tag |-> "", attrs |-> <<>>, kids |-> <<>>]

RECURSIVE RemoveComments(_)
\* lines 136-137: every Comment node is extracted
RemoveComments(nodes) ==
    IF nodes = <<>> THEN <<>>
    ELSE LET n == Head(nodes)
         IN  (IF n.kind = "comment" THEN <<>>
              ELSE <<[n EXCEPT !.kids = RemoveComments(n.kids)]>>)
             \o RemoveComments(Tail(nodes))

RECURSIVE Preorder(_)
\* find_all(): the tags in document order
Preorder(nodes) ==
    IF nodes = <<>> THEN <<>>
    ELSE LET n == Head(nodes)
         IN  (IF n.kind = "elem" THEN <<n>> \o Preorder(n.kids) ELSE <<>>)
             \o Preorder(Tail(nodes))

\* find(tag, recursive=False): the first child of that name, or None
FindChild(nodes, tag) ==
    LET hits == {i \in 1..Len(nodes) : nodes[i].kind = "elem" /\ nodes[i].tag = tag}
    IN  IF hits = {} THEN NoNode
        ELSE nodes[CHOOSE i \in hits : \A j \in hits : i <= j]

\* find(tag): the first tag of that name in document order, or None
Find(nodes, tag) ==
    LET all == Preorder(nodes)
        hits == {i \in 1..Len(all) : all[i].tag = tag}
    IN  IF hits = {} THEN NoNode
        ELSE all[CHOOSE i \in hits : \A j \in hits : i <= j]

RECURSIVE Ser(_)
\* str(node): the items of its serialisation.  The open and close tags carry
\* the node's identity; attribute values are written in double quotes.
Ser(nodes) ==
    IF nodes = <<>> THEN <<>>
    ELSE LET n == Head(nodes)
         IN  (IF n.kind = "elem"
              THEN <<[kind |-> "open", tag |-> n.tag, id |-> n.id]>>
                   \o [i \in 1..Len(n.attrs) |->
                          Attr(n.attrs[i].name, "\"", n.attrs[i].val)]
                   \o Ser(n.kids)
                   \o <<[kind |-> "close", tag |-> n.tag, id |-> n.id]>>
              ELSE <<[kind |-> n.kind, tag |-> "", id |-> n.id]>>)
             \o Ser(Tail(nodes))

(***************************************************************************)
(* collect_local_assets                                                    *)
(***************************************************************************)
ASSET_EXTS ==
    { <<".", e>> : e \in {"css", "js", "png", "jpg", "jpeg", "gif", "svg",
                          "webp", "ico", "woff", "woff2", "ttf", "otf"} }

\* the src and href values of every tag
RefValues(soup) ==
    LET all == Preorder(soup)
    IN  { all[i].attrs[j].val :
            <<i, j>> \in { <<a, b>> \in (1..Len(all)) \X (1..2) :
                              /\ b <= Len(all[a].attrs)
                              /\ all[a].attrs[b].name \in {"src", "href"} } }

\* lines 59-65 for one value: the candidate is an asset
IsAsset(val, F, D) ==
    LET cleaned == lstrip(val, {".", "/"})
    IN  /\ ~is_remote(val)
        /\ lower(PathSuffix(cleaned)) \in ASSET_EXTS
        /\ Exists(SiteDir \o PathParts(cleaned), F, D)

collect_local_assets(soup, F, D) ==
    { SiteDir \o PathParts(lstrip(val, {".", "/"})) :
        val \in {v \in RefValues(soup) : IsAsset(v, F, D)} }

(***************************************************************************)
(* copy_assets.  The loop's state: the filesystem, the mapping, for every  *)
(* key the resolved path its file was copied to, and the exception that    *)
(* ended the loop (shutil.copy2 of a file onto itself), "" without one.    *)
(***************************************************************************)
\* asset.relative_to(site_dir), with the fallback to the name
RelativeTo(asset) ==
    IF IsUnder(asset, SiteDir)
    THEN SubSeq(asset, Len(SiteDir) + 1, Len(asset))
    ELSE <<asset[Len(asset)]>>

\* mapping[k] = v on a dict: an existing key keeps its place
DictSet(mapping, k, v) ==
    IF HasKey(mapping, k)
    THEN [i \in 1..Len(mapping) |->
             IF mapping[i].k = k THEN [k |-> k, v |-> v] ELSE mapping[i]]
    ELSE Append(mapping, [k |-> k, v |-> v])

\* lines 73-81 for one asset
CopyOne(asset, st) ==
    LET rel == RelativeTo(asset)
        dest_path == AssetsDir \o rel
        D1 == MkdirP(Parent(dest_path), st.dirs)
        from == Resolve(asset, D1)
        to == Resolve(dest_path, D1)
        key == JoinPath(rel)
    IN  IF st.err # "" THEN st
        ELSE IF from = to
        THEN [st EXCEPT !.dirs = D1, !.err = "SameFileError"]
        ELSE [fs |-> (to :> st.fs[from]) @@ st.fs,
              dirs |-> D1,
              mapping |-> DictSet(st.mapping, key, JoinPath(rel)),
              copied |-> DictSet(st.copied, key, to),
              err |-> ""]

RECURSIVE CopyLoop(_, _)
CopyLoop(order, st) ==
    IF order = <<>> THEN st
    ELSE CopyLoop(Tail(order), CopyOne(Head(order), st))

\* copy_assets(assets, site_dir, dest_assets_dir), the set iterated in order
copy_assets(order, F, D) ==
    CopyLoop(order, [fs |-> F, dirs |-> D, mapping |-> <<>>, copied |-> <<>>,
                     err |-> ""])

\* the orders in which a set can be iterated
Orders(S) ==
    {o \in [1..Cardinality(S) -> S] : \A i, j \in DOMAIN o : i # j => o[i] # o[j]}

(***************************************************************************)
(* generate_theme: the fragments.                                          *)
(***************************************************************************)
\* "&lt;?php echo get_template_directory_uri(); ?&gt;": the PHP tag as
\* BeautifulSoup writes it in an attribute value
PHPESC == "&lt;?php echo get_template_directory_uri(); ?&gt;"

\* line 202-203: the rewritten head is parsed again and its contents are
\* serialised: the outer tags go, attribute values are written in double
\* quotes with "<" and ">" as entities
Reserialize(items) ==
    LET inner == SubSeq(items, 2, Len(items) - 1)
    IN  [i \in 1..Len(inner) |->
            IF inner[i].kind = "attr"
            THEN [inner[i] EXCEPT
                    !.val = [j \in 1..Len(inner[i].val) |->
                                IF inner[i].val[j] = PHP THEN PHPESC
                                ELSE inner[i].val[j]],
                    !.quote = "\"", !.quote2 = "\""]
            ELSE inner[i]]

\* lines 196-203, for a document with a head
HeadFragment(soup, mapping) ==
    Reserialize(replace_asset_paths_in_html(Ser(<<Find(soup, "head")>>), mapping))

\* soup.body
Body(soup) == Find(soup, "body")

\* line 219: the first top-level element of the body
FirstElement(body) ==
    LET hits == {i \in 1..Len(body.kids) : body.kids[i].kind = "elem"}
    IN  IF hits = {} THEN NoNode
        ELSE body.kids[CHOOSE i \in hits : \A j \in hits : i <= j]

\* lines 211-221: what the header fragment is the serialisation of
HeaderSource(soup) ==
    LET body == Body(soup)
        header_tag == Find(body.kids, "header")
    IN  IF body = NoNode THEN <<>>
        ELSE IF header_tag # NoNode THEN <<header_tag>>
        ELSE IF FirstElement(body) # NoNode THEN <<FirstElement(body)>>
        ELSE <<>>

\* lines 227-241: the top-level children of the body that make the main
\* fragment when there is no main tag
MainParts(body) ==
    SelectSeq(body.kids,
              LAMBDA el : /\ ~(el.kind = "elem" /\ el.tag \in {"header", "footer"})
                          /\ el.kind # "comment"
                          /\ el.kind # "ws")

\* lines 213, 223-242, 247-249
MainSource(soup) ==
    LET body == Body(soup)
        main_tag == Find(body.kids, "main")
    IN  IF body = NoNode THEN soup
        ELSE IF main_tag # NoNode THEN <<main_tag>>
        ELSE MainParts(body)

\* lines 212, 244-245
FooterSource(soup) ==
    LET body == Body(soup)
        footer_tag == Find(body.kids, "footer")
    IN  IF body = NoNode \/ footer_tag = NoNode THEN <<>> ELSE <<footer_tag>>

HeaderFragment(soup, mapping) ==
    replace_asset_paths_in_html(Ser(HeaderSource(soup)), mapping)

MainFragment(soup, mapping) ==
    replace_asset_paths_in_html(Ser(MainSource(soup)), mapping)

FooterFragment(soup, mapping) ==
    replace_asset_paths_in_html(Ser(FooterSource(soup)), mapping)

\* a str.replace applied to a fragment: to the value of every attribute
ReplaceInFragment(items, old, new) ==
    [i \in 1..Len(items) |->
        IF items[i].kind = "attr"
        THEN [items[i] EXCEPT !.val = replace(items[i].val, old, new)]
        ELSE items[i]]

\* lines 298-305: the head as it is put into header.php
FinalHead(head_html) ==
    IF head_html = <<>> THEN <<>>
    ELSE LET h1 == ReplaceInFragment(head_html,
                     <<OutName, "/", "assets", "/", "css", "/", "tailwind", ".", "css">>,
                     <<"assets", "/", "css", "/", "tailwind", ".", "css">>)
             h2 == ReplaceInFragment(h1, <<PHPESC>>, <<PHP>>)
         IN  ReplaceInFragment(h2, <<"/", "assets", "/", "assets", "/">>,
                                   <<"/", "assets", "/">>)

\* lines 265-272: the enqueue lines of functions.php after the first
EnqueueLines(mapping) ==
    LET vs == [i \in 1..Len(mapping) |-> mapping[i].v]
        extra_css == SelectSeq(vs, LAMBDA v : PathSuffix(v) = <<".", "css">>)
        extra_js == SelectSeq(vs, LAMBDA v : PathSuffix(v) = <<".", "js">>)
    IN  [i \in 1..Len(extra_css) |->
            [fn |-> "wp_enqueue_style", n |-> i - 1, path |-> extra_css[i]]]
        \o [i \in 1..Len(extra_js) |->
            [fn |-> "wp_enqueue_script", n |-> i - 1, path |-> extra_js[i]]]

(***************************************************************************)
(* Inputs of the rewriter taken on its own.                                *)
(***************************************************************************)
RewriteKeys ==
    { <<"css", "/", "site", ".", "css">>,
      <<"a", "/", "site", ".", "css">>,
      <<"assets", "/", "x", ".", "css">>,
      <<"img", "/", "logo", ".", "png">> }

RewriteItems ==
    { Attr("href", "\"", <<"css", "/", "site", ".", "css">>),
      Attr("href", "'", <<".", "/", "css", "/", "site", ".", "css">>),
      Attr("href", "\"", <<"a", "/", "site", ".", "css">>),
      Attr("src", "\"", <<"css", "\\", "site", ".", "css">>),
      Attr("src", "'", <<"site", ".", "css">>),
      Attr("href", "\"", <<"https", ":", "/", "/", "cdn", "/", "site", ".", "css">>),
      Attr("src", "\"", <<"/", "/", "cdn", "/", "img", "/", "logo", ".", "png">>),
      Attr("href", "\"", <<"#", "top">>),
      Attr("href", "'", <<"mailto", ":", "x">>),
      Attr("src", "\"", <<"js", "/", "app", ".", "js">>) }

\* the mappings with distinct keys of at most MaxMapLen entries, each value
\* the one a conversion run gives its key
RewriteMappings ==
    { [i \in 1..Len(ks) |-> [k |-> ks[i], v |-> NormalizeValue(ks[i])]] :
        ks \in {s \in SeqsUpTo(RewriteKeys, MaxMapLen) :
                   \A i, j \in 1..Len(s) : i # j => s[i] # s[j]} }

(***************************************************************************)
(* Inputs of a conversion run: the site on disk and its index.html.        *)
(***************************************************************************)
IndexHtml == SiteDir \o << <<"index", ".", "html">> >>

PackageJson == SiteDir \o << <<"package", ".", "json">> >>

NodeModules == SiteDir \o << <<"node_modules">> >>

\* where the Tailwind build writes the stylesheet (line 172, cwd=site_dir)
TailwindCss == SitePath(<<OutName, "/", "assets", "/", "css", "/", "tailwind", ".", "css">>)

\* the files of the site, and one file two levels above it
BaseFiles ==
    { SitePath(<<"css", "/", "site", ".", "css">>),
      SitePath(<<"js", "/", "app", ".", "js">>),
      SitePath(<<"assets", "/", "x", ".", "css">>),
      SitePath(<<"assets", "/", "assets", "/", "y", ".", "png">>),
      SitePath(<<"STYLE", ".", "CSS">>),
      SitePath(<<"about", ".", "html">>),
      << <<"x", ".", "css">> >> }

RECURSIVE Ancestors(_)
Ancestors(p) == IF p = <<>> THEN {<<>>} ELSE {Parent(p)} \cup Ancestors(Parent(p))

BaseDirs == UNION {Ancestors(p) : p \in BaseFiles} \cup {SiteDir}

\* what an earlier run left in the output directory
OldFiles == { OutDir \o << <<"style", ".", "css">> >>,
              AssetsDir \o << <<"old", ".", "css">> >> }

\* the index.html: a head (or none) with a link per head reference, and the
\* body's header, main and footer with an img per reference; without a body
\* tag the three stand at the top level
MakeDoc(shape, refs) ==
    LET At(loc, tag, attr) ==
            LET hit == SelectSeq([i \in 1..Len(refs) |-> [refs[i] EXCEPT !.n = i]],
                                 LAMBDA r : r.loc = loc)
            IN  [i \in 1..Len(hit) |->
                    Elem(20 + hit[i].n, tag,
                         <<[name |-> attr, val |-> hit[i].val]>>, <<>>)]
        head == Elem(1, "head", <<>>, At("head", "link", "href"))
        kids == << Elem(3, "header", <<>>, At("header", "img", "src")),
                   CommentNode(9),
                   Elem(4, "main", <<>>, At("main", "img", "src")),
                   TextNode(8, TRUE),
                   Elem(5, "footer", <<>>, At("footer", "img", "src")) >>
    IN  CASE shape = "full" -> <<head, Elem(2, "body", <<>>, kids)>>
          [] shape = "nohead" -> <<Elem(2, "body", <<>>, kids)>>
          [] shape = "nobody" -> <<head>> \o kids

Ref(loc, val) == [loc |-> loc, val |-> val, n |-> 0]

\* the reference values of the asset pipeline's documents
PipelineValues ==
    { <<"css", "/", "site", ".", "css">>,
      <<"assets", "/", "x", ".", "css">>,
      <<"assets", "/", "assets", "/", "y", ".", "png">>,
      <<"STYLE", ".", "CSS">>,
      <<"js", "/", "app", ".", "js">>,
      <<"css", "/", ".", ".", "/", ".", ".", "/", ".", ".", "/", "x", ".", "css">>,
      <<"https", ":", "/", "/", "cdn", "/", "site", ".", "css">> }

PipelineDocs ==
    { MakeDoc(shape, refs) :
        shape \in {"full", "nohead", "nobody"},
        refs \in SeqsUpTo({Ref(l, v) : l \in {"head", "main"},
                                         v \in PipelineValues}, MaxRefs) }

\* the documents of the runs started from main
MainDocs ==
    { MakeDoc("full", << Ref("head", <<OutName, "/", "assets", "/", "css", "/", "tailwind", ".", "css">>),
                         Ref("main", <<"css", "/", "site", ".", "css">>) >>),
      MakeDoc("full", << Ref("head", <<"css", "/", "site", ".", "css">>),
                         Ref("footer", <<"js", "/", "app", ".", "js">>) >>),
      MakeDoc("nohead", << Ref("header", <<"assets", "/", "x", ".", "css">>) >>),
      MakeDoc("nobody", << >>) }

\* the top-level children of the body in the documents of the decomposition:
\* a header, main, footer or div element, a main around a nested header or
\* footer that holds an image, or a text node
KidShapes ==
    { [kind |-> "elem", tag |-> t, nested |-> ""] :
        t \in {"header", "main", "footer", "div"} }
    \cup { [kind |-> "elem", tag |-> "main", nested |-> n] :
             n \in {"header", "footer"} }
    \cup { [kind |-> k, tag |-> "", nested |-> ""] : k \in {"text", "ws"} }

Kid(shape, i) ==
    IF shape.kind = "elem"
    THEN Elem(10 * i, shape.tag, <<>>,
              IF shape.nested = "" THEN <<>>
              ELSE << Elem(10 * i + 1, shape.nested, <<>>,
                           << Elem(10 * i + 2, "img",
                                   <<[name |-> "src",
                                      val |-> <<"css", "/", "site", ".", "css">>]>>,
                                   <<>>) >>) >>)
    ELSE TextNode(10 * i, shape.kind = "ws")

DecomposeDocs ==
    { LET kids == [i \in 1..Len(shapes) |-> Kid(shapes[i], i)]
          head == IF hasHead THEN <<Elem(1, "head", <<>>, <<>>)>> ELSE <<>>
      IN  IF hasBody THEN head \o <<Elem(2, "body", <<>>, kids)>>
          ELSE head \o kids :
        shapes \in SeqsUpTo(KidShapes, MaxKids),
        hasHead \in BOOLEAN, hasBody \in BOOLEAN }

\* answers to the overwrite prompt
Answers == { <<"y">>, <<"Y">>, <<"n">>, <<>>, <<"yes">> }

NotAsked == <<"(no prompt)">>

EndOfInput == <<"(end of input)">>

\* the ways a subprocess.run(check=True) ends: exit status 0, a non-zero
\* exit status (CalledProcessError), any other exception (OSError, ...)
Outcomes == {"ok", "exit", "exception"}

VARIABLES
    pc,          \* where the run is
    fs, dirs,    \* the filesystem now
    fs0, dirs0,  \* the filesystem when the run started
    confirm,     \* the answer to the overwrite prompt
    called,      \* generate_theme has been called
    error,       \* the exception that ended the run, "" without one
    printed,     \* the messages printed
    soup, assets, mapping, copied,
    head_html, header_html, main_html, footer_html,
    rw_pc, rw_html, rw_map, rw_once, rw_twice,
    wp_pc,       \* where generate_webp is
    wp_run,      \* the invocation: the first or the second
    wp_args,     \* the parsed arguments: dirs, recursive, force
    wp_fs,       \* the filesystem generate_webp works on
    wp_fs0,      \* that filesystem before the first invocation
    wp_fs1,      \* that filesystem after the first invocation
    wp_todo,     \* the directories still to scan
    wp_files,    \* the images of the directory still to convert
    wp_total, wp_created

rw_vars == <<rw_pc, rw_html, rw_map, rw_once, rw_twice>>

wp_vars == <<wp_pc, wp_run, wp_args, wp_fs, wp_fs0, wp_fs1, wp_todo, wp_files,
             wp_total, wp_created>>

frag_vars == <<head_html, header_html, main_html, footer_html>>

run_vars == <<pc, fs, dirs, fs0, dirs0, confirm, called, error, printed,
              soup, assets, mapping, copied, frag_vars>>

vars == <<run_vars, rw_vars, wp_vars>>

\* the rewriter's own variables, at rest
RewriteIdle ==
    /\ rw_pc = "idle" /\ rw_html = <<>> /\ rw_map = <<>>
    /\ rw_once = <<>> /\ rw_twice = <<>>

\* generate_webp's variables, at rest
WebpIdle ==
    /\ wp_pc = "idle" /\ wp_run = 0 /\ wp_args = <<>>
    /\ wp_fs = <<>> /\ wp_fs0 = <<>> /\ wp_fs1 = <<>>
    /\ wp_todo = <<>> /\ wp_files = {} /\ wp_total = 0 /\ wp_created = 0

\* a run's variables, at rest
RunIdle ==
    /\ pc = "idle" /\ fs = <<>> /\ dirs = {} /\ fs0 = <<>> /\ dirs0 = {}
    /\ confirm = NotAsked /\ called = FALSE /\ error = "" /\ printed = {}
    /\ soup = <<>> /\ assets = {} /\ mapping = <<>> /\ copied = <<>>
    /\ head_html = <<>> /\ header_html = <<>> /\ main_html = <<>>
    /\ footer_html = <<>>

\* the site on disk: with index.html holding doc (or without it), with or
\* without package.json, node_modules and an output directory
SiteFs(doc, hasIndex, hasPkg, hasOut) ==
    [p \in BaseFiles \cup (IF hasOut THEN OldFiles ELSE {}) |-> Data(p)]
    @@ (IF hasIndex THEN IndexHtml :> [kind |-> "html", name |-> doc] ELSE <<>>)
    @@ (IF hasPkg THEN PackageJson :> Data(PackageJson) ELSE <<>>)

SiteDirs(hasModules, hasOut) ==
    BaseDirs \cup (IF hasModules THEN {NodeModules} ELSE {})
             \cup (IF hasOut THEN {OutDir, AssetsDir} ELSE {})

\* the state in which a run starts at start_pc
RunInit(start_pc, docs, pkgs, outs) ==
    /\ \E doc \in docs, hasIndex \in BOOLEAN, hasPkg \in pkgs,
          hasModules \in BOOLEAN, hasOut \in outs :
          /\ hasIndex \/ doc = CHOOSE d \in docs : TRUE
          /\ hasModules => hasPkg
          /\ fs = SiteFs(doc, hasIndex, hasPkg, hasOut)
          /\ dirs = SiteDirs(hasModules, hasOut)
    /\ fs0 = fs /\ dirs0 = dirs
    /\ pc = start_pc
    /\ confirm = NotAsked /\ called = (start_pc # "main")
    /\ error = "" /\ printed = {}
    /\ soup = <<>> /\ assets = {} /\ mapping = <<>> /\ copied = <<>>
    /\ head_html = <<>> /\ header_html = <<>> /\ main_html = <<>>
    /\ footer_html = <<>>
    /\ RewriteIdle
    /\ WebpIdle

(***************************************************************************)
(* main                                                                    *)
(***************************************************************************)
\* the prompt's default taken as yes: anything but an n
AffirmativeUnlessNo(answer) == lower(answer) # <<"n">>

\* line 365: the answer is a yes
Affirmative(answer) == lower(answer) = <<"y">>

\* shutil.rmtree(out_dir)
RmtreeFs(F) == [p \in {q \in DOMAIN F : ~IsUnder(q, OutDir)} |-> F[p]]

RmtreeDirs(D) == {d \in D : ~IsUnder(d, OutDir)}

\* lines 363, 370: no output directory, no prompt
MainNoOutDir ==
    /\ pc = "main"
    /\ ~Exists(OutDir, fs, dirs)
    /\ pc' = "generate_theme"
    /\ called' = TRUE
    /\ UNCHANGED <<fs, dirs, fs0, dirs0, confirm, error, printed, soup, assets,
                   mapping, copied, frag_vars, rw_vars, wp_vars>>

\* lines 363-367: the prompt and its answer
MainPrompt ==
    /\ pc = "main"
    /\ Exists(OutDir, fs, dirs)
    /\ \E answer \in Answers :
          /\ confirm' = answer
          /\ IF Affirmative(answer)
             THEN pc' = "rmtree" /\ printed' = printed
             ELSE pc' = "cancelled" /\ printed' = printed \cup {"Cancelled"}
    /\ UNCHANGED <<fs, dirs, fs0, dirs0, called, error, soup, assets,
                   mapping, copied, frag_vars, rw_vars, wp_vars>>

\* line 364: input() at the end of the input raises EOFError
MainPromptEOF ==
    /\ pc = "main"
    /\ Exists(OutDir, fs, dirs)
    /\ confirm' = EndOfInput
    /\ error' = "EOFError"
    /\ pc' = "raised"
    /\ UNCHANGED <<fs, dirs, fs0, dirs0, called, printed, soup, assets,
                   mapping, copied, frag_vars, rw_vars, wp_vars>>

\* lines 368, 370
MainRmtree ==
    /\ pc = "rmtree"
    /\ fs' = RmtreeFs(fs)
    /\ dirs' = RmtreeDirs(dirs)
    /\ pc' = "generate_theme"
    /\ called' = TRUE
    /\ UNCHANGED <<fs0, dirs0, confirm, error, printed, soup, assets,
                   mapping, copied, frag_vars, rw_vars, wp_vars>>

(***************************************************************************)
(* generate_theme                                                          *)
(***************************************************************************)
\* the output directory made before index.html is looked for
GenMissingIndexAfterMkdir ==
    /\ pc = "generate_theme"
    /\ ~Exists(IndexHtml, fs, dirs)
    /\ dirs' = MkdirP(AssetsDir, dirs)
    /\ error' = "FileNotFoundError"
    /\ pc' = "raised"
    /\ UNCHANGED <<fs, fs0, dirs0, confirm, called, printed, soup, assets,
                   mapping, copied, frag_vars, rw_vars, wp_vars>>

\* lines 129-131
GenMissingIndex ==
    /\ pc = "generate_theme"
    /\ ~Exists(IndexHtml, fs, dirs)
    /\ error' = "FileNotFoundError"
    /\ pc' = "raised"
    /\ UNCHANGED <<fs, dirs, fs0, dirs0, confirm, called, printed, soup, assets,
                   mapping, copied, frag_vars, rw_vars, wp_vars>>

\* lines 129-137
GenParse ==
    /\ pc = "generate_theme"
    /\ Exists(IndexHtml, fs, dirs)
    /\ soup' = RemoveComments(fs[IndexHtml].name)
    /\ pc' = "mkdir"
    /\ UNCHANGED <<fs, dirs, fs0, dirs0, confirm, called, error, printed, assets,
                   mapping, copied, frag_vars, rw_vars, wp_vars>>

\* lines 140-141
GenMkdir ==
    /\ pc = "mkdir"
    /\ dirs' = MkdirP(AssetsDir, dirs)
    /\ pc' = "build"
    /\ UNCHANGED <<fs, fs0, dirs0, confirm, called, error, printed, soup, assets,
                   mapping, copied, frag_vars, rw_vars, wp_vars>>

\* lines 144-145: no package.json
BuildSkip ==
    /\ pc = "build"
    /\ ~Exists(PackageJson, fs, dirs)
    /\ pc' = "collect"
    /\ UNCHANGED <<fs, dirs, fs0, dirs0, confirm, called, error, printed, soup,
                   assets, mapping, copied, frag_vars, rw_vars, wp_vars>>

\* lines 147-153: neither npm nor npx
BuildNoNode ==
    /\ pc = "build"
    /\ Exists(PackageJson, fs, dirs)
    /\ printed' = printed \cup {"Warning: Node.js/npm (or npx) not found in PATH"}
    /\ pc' = "collect"
    /\ UNCHANGED <<fs, dirs, fs0, dirs0, confirm, called, error, soup,
                   assets, mapping, copied, frag_vars, rw_vars, wp_vars>>

\* the warning of lines 173-176 for the way the build ended, "" for none
BuildWarning(outcome) ==
    CASE outcome = "exit" -> {"Warning: npm/npx build failed with exit code"}
      [] outcome = "exception" -> {"Warning: failed to run npm/npx build"}
      [] OTHER -> {}

\* lines 157-168: how the npm branch ends, given how its commands end
NpmOutcome(hasModules, install, prod, fallback) ==
    IF ~hasModules /\ install # "ok" THEN install
    ELSE IF prod = "exit" THEN fallback
    ELSE prod

\* the stylesheet a successful build leaves
BuiltFs(F) == (TailwindCss :> Data(TailwindCss)) @@ F

\* lines 155-168, 173-176: npm is in the PATH
BuildNpm ==
    /\ pc = "build"
    /\ Exists(PackageJson, fs, dirs)
    /\ \E install \in Outcomes, prod \in Outcomes, fallback \in Outcomes :
          LET hasModules == Exists(NodeModules, fs, dirs)
              outcome == NpmOutcome(hasModules, install, prod, fallback)
              D1 == IF ~hasModules /\ install = "ok"
                    THEN dirs \cup {NodeModules} ELSE dirs
          IN  /\ fs' = IF outcome = "ok" THEN BuiltFs(fs) ELSE fs
              /\ dirs' = IF outcome = "ok" THEN MkdirP(Parent(TailwindCss), D1)
                         ELSE D1
              /\ printed' = printed \cup BuildWarning(outcome)
    /\ pc' = "collect"
    /\ UNCHANGED <<fs0, dirs0, confirm, called, error, soup,
                   assets, mapping, copied, frag_vars, rw_vars, wp_vars>>

\* lines 169-176: npx only
BuildNpx ==
    /\ pc = "build"
    /\ Exists(PackageJson, fs, dirs)
    /\ \E outcome \in Outcomes :
          /\ fs' = IF outcome = "ok" THEN BuiltFs(fs) ELSE fs
          /\ dirs' = IF outcome = "ok" THEN MkdirP(Parent(TailwindCss), dirs)
                     ELSE dirs
          /\ printed' = printed \cup BuildWarning(outcome)
    /\ pc' = "collect"
    /\ UNCHANGED <<fs0, dirs0, confirm, called, error, soup,
                   assets, mapping, copied, frag_vars, rw_vars, wp_vars>>

\* line 179
GenCollect ==
    /\ pc = "collect"
    /\ assets' = collect_local_assets(soup, fs, dirs)
    /\ pc' = "copy"
    /\ UNCHANGED <<fs, dirs, fs0, dirs0, confirm, called, error, printed, soup,
                   mapping, copied, frag_vars, rw_vars, wp_vars>>

\* line 180: the set is iterated in some order
GenCopy ==
    /\ pc = "copy"
    /\ \E order \in Orders(assets) :
          LET st == copy_assets(order, fs, dirs)
          IN  /\ fs' = st.fs
              /\ dirs' = st.dirs
              /\ mapping' = st.mapping
              /\ copied' = st.copied
              /\ error' = st.err
              /\ pc' = IF st.err = "" THEN "normalize" ELSE "raised"
    /\ UNCHANGED <<fs0, dirs0, confirm, called, printed, soup, assets,
                   frag_vars, rw_vars, wp_vars>>

\* lines 181-192
GenNormalize ==
    /\ pc = "normalize"
    /\ mapping' = NormalizeMapping(mapping)
    /\ pc' = "head"
    /\ UNCHANGED <<fs, dirs, fs0, dirs0, confirm, called, error, printed, soup,
                   assets, copied, frag_vars, rw_vars, wp_vars>>

\* lines 195-203, the document has a head
GenHead ==
    /\ pc = "head"
    /\ Find(soup, "head") # NoNode
    /\ head_html' = HeadFragment(soup, mapping)
    /\ pc' = "body"
    /\ UNCHANGED <<fs, dirs, fs0, dirs0, confirm, called, error, printed, soup,
                   assets, mapping, copied, header_html, main_html, footer_html,
                   rw_vars, wp_vars>>

\* lines 195-203, the document has no head: line 203 reads head_inner, which
\* line 202 has not bound
GenHeadUnbound ==
    /\ pc = "head"
    /\ Find(soup, "head") = NoNode
    /\ error' = "UnboundLocalError"
    /\ pc' = "raised"
    /\ UNCHANGED <<fs, dirs, fs0, dirs0, confirm, called, printed, soup,
                   assets, mapping, copied, frag_vars, rw_vars, wp_vars>>

\* lines 205-249
GenBody ==
    /\ pc = "body"
    /\ header_html' = HeaderFragment(soup, mapping)
    /\ main_html' = MainFragment(soup, mapping)
    /\ footer_html' = FooterFragment(soup, mapping)
    /\ pc' = "emit"
    /\ UNCHANGED <<fs, dirs, fs0, dirs0, confirm, called, error, printed, soup,
                   assets, mapping, copied, head_html, rw_vars, wp_vars>>

ThemeFile(name) == OutDir \o <<name>>

\* lines 251-339: style.css, functions.php, header.php, footer.php, index.php
EmittedFiles(map, head, header, main, footer) ==
    (ThemeFile(<<"style", ".", "css">>) :> [kind |-> "style.css"])
    @@ (ThemeFile(<<"functions", ".", "php">>) :>
            [kind |-> "functions.php", enqueue |-> EnqueueLines(map)])
    @@ (ThemeFile(<<"header", ".", "php">>) :>
            [kind |-> "header.php", head |-> FinalHead(head), header |-> header])
    @@ (ThemeFile(<<"footer", ".", "php">>) :>
            [kind |-> "footer.php", footer |-> footer])
    @@ (ThemeFile(<<"index", ".", "php">>) :>
            [kind |-> "index.php", main |-> main])

GenEmit ==
    /\ pc = "emit"
    /\ fs' = EmittedFiles(mapping, head_html, header_html, main_html, footer_html)
             @@ fs
    /\ pc' = "pages"
    /\ UNCHANGED <<dirs, fs0, dirs0, confirm, called, error, printed, soup,
                   assets, mapping, copied, frag_vars, rw_vars, wp_vars>>

\* site_dir.glob('*.html') without index.html
OtherPages(F) ==
    { p \in DOMAIN F : /\ Parent(p) = SiteDir
                       /\ PathSuffix(p[Len(p)]) = <<".", "html">>
                       /\ p # IndexHtml }

\* lines 343-349
GenCopyPages ==
    /\ pc = "pages"
    /\ fs' = [p \in {ThemeFile(q[Len(q)]) : q \in OtherPages(fs)} |->
                 fs[SiteDir \o <<p[Len(p)]>>]] @@ fs
    /\ pc' = "done"
    /\ UNCHANGED <<dirs, fs0, dirs0, confirm, called, error, printed, soup,
                   assets, mapping, copied, frag_vars, rw_vars, wp_vars>>

ThemeNext ==
    \/ GenMissingIndex \/ GenParse \/ GenMkdir \/ BuildSkip
    \/ GenCollect \/ GenCopy \/ GenNormalize
    \/ GenHead \/ GenHeadUnbound \/ GenBody \/ GenEmit \/ GenCopyPages

Next ==
    \/ MainNoOutDir \/ MainPrompt \/ MainPromptEOF \/ MainRmtree
    \/ BuildNoNode \/ BuildNpm \/ BuildNpx
    \/ ThemeNext

\* python convert_to_wordpress.py: main, then generate_theme
Init == RunInit("main", MainDocs, BOOLEAN, BOOLEAN)

Spec == Init /\ [][Next]_vars

\* generate_theme on a site without package.json and without an output
\* directory, on the documents of the asset pipeline
AssetsInit == RunInit("generate_theme", PipelineDocs, {FALSE}, {FALSE})

SpecAssets == AssetsInit /\ [][ThemeNext]_vars

\* the same, on the documents of the decomposition
DecomposeInit == RunInit("generate_theme", DecomposeDocs, {FALSE}, {FALSE})

SpecDecompose == DecomposeInit /\ [][ThemeNext]_vars

\* the reference values of the locator's documents: with a leading "./",
\* "../" or "/", a dot-prefixed file name, and a plain relative path
LocateValues ==
    { <<".", "/", "css", "/", "site", ".", "css">>,
      <<".", ".", "/", "css", "/", "site", ".", "css">>,
      <<"/", "css", "/", "site", ".", "css">>,
      <<".", "STYLE", ".", "CSS">>,
      <<"js", "/", "app", ".", "js">> }

LocateDocs ==
    { MakeDoc(shape, refs) :
        shape \in {"full", "nohead", "nobody"},
        refs \in SeqsUpTo({Ref(l, v) : l \in {"head", "main"},
                                         v \in LocateValues}, MaxRefs) }

\* generate_theme on the documents of the locator
LocateInit == RunInit("generate_theme", LocateDocs, {FALSE}, {FALSE})

SpecLocate == LocateInit /\ [][ThemeNext]_vars

(***************************************************************************)
(* The rewriter on its own.                                                *)
(***************************************************************************)
RewriteInit ==
    /\ rw_pc = "start"
    /\ rw_html \in SeqsUpTo(RewriteItems, MaxAttrs)
    /\ rw_map \in RewriteMappings
    /\ rw_once = <<>>
    /\ rw_twice = <<>>
    /\ RunIdle
    /\ WebpIdle

\* replace_asset_paths_in_html(h, m)
RewriteOnce ==
    /\ rw_pc = "start"
    /\ rw_once' = replace_asset_paths_in_html(rw_html, rw_map)
    /\ rw_pc' = "once"
    /\ UNCHANGED <<rw_html, rw_map, rw_twice, run_vars, wp_vars>>

\* replace_asset_paths_in_html(replace_asset_paths_in_html(h, m), m)
RewriteTwice ==
    /\ rw_pc = "once"
    /\ rw_twice' = replace_asset_paths_in_html(rw_once, rw_map)
    /\ rw_pc' = "twice"
    /\ UNCHANGED <<rw_html, rw_map, rw_once, run_vars, wp_vars>>

RewriteNext == RewriteOnce \/ RewriteTwice

SpecRewrite == RewriteInit /\ [][RewriteNext]_vars

(***************************************************************************)
(* tools/generate_webp.py.  A path is relative to the working directory;   *)
(* the filesystem maps a path to what is there: a directory, an image, a   *)
(* file that Pillow cannot open, a .webp or another file.                  *)
(***************************************************************************)
\* the most directories given with --dirs
MaxDirs == 2

\* --quality, default 85
Quality == 85

IMAGE_EXTS ==
    { <<".", "jpg">>, <<".", "jpeg">>, <<".", "png">>, <<".", "bmp">>,
      <<".", "tiff">>, <<".", "gif">> }

Gallery == << <<"NPjpgs">> >>

GallerySub == Gallery \o << <<"sub">> >>

Staff == << <<"vodstvo">> >>

Directory == [kind |-> "dir"]

Image(name) == [kind |-> "image", name |-> name]

Unreadable == [kind |-> "unreadable"]

\* what Image.save(dest, "WEBP", quality=...) writes for an image
Webp(im, quality) == [kind |-> "webp", of |-> im.name, quality |-> quality]

\* a .webp that was there before, made by something else
OldWebp == [kind |-> "webp", of |-> "elsewhere", quality |-> 0]

\* the files that are always there
WebpBaseFiles ==
    (Gallery :> Directory)
    @@ (GallerySub :> Directory)
    @@ (Gallery \o << <<"a", ".", "jpg">> >> :> Image("a.jpg"))
    @@ (Gallery \o << <<"b", ".", "gif">> >> :> Unreadable)
    @@ (Gallery \o << <<"notes", ".", "txt">> >> :> [kind |-> "text"])
    @@ (GallerySub \o << <<"c", ".", "jpeg">> >> :> Image("c.jpeg"))

\* a second image of the same stem as a.jpg, with an upper-case extension
SameStem == Gallery \o << <<"a", ".", "PNG">> >> :> Image("a.PNG")

\* a .webp next to the unreadable file, there before the first run
OldFile == Gallery \o << <<"b", ".", "webp">> >> :> OldWebp

StaffFiles ==
    (Staff :> Directory) @@ (Staff \o << <<"d", ".", "png">> >> :> Image("d.png"))

WebpFilesystems ==
    { WebpBaseFiles @@ (IF same THEN SameStem ELSE <<>>)
                    @@ (IF old THEN OldFile ELSE <<>>)
                    @@ (IF staff THEN StaffFiles ELSE <<>>) :
        same \in BOOLEAN, old \in BOOLEAN, staff \in BOOLEAN }

\* Path.with_suffix(suffix) of a path whose name has a suffix
with_suffix(path, suffix) ==
    LET name == path[Len(path)]
        stem == SubSeq(name, 1, Len(name) - Len(PathSuffix(name)))
    IN  Parent(path) \o <<stem \o suffix>>

\* folder.exists() and folder.is_dir()
IsDir(F, folder) == folder \in DOMAIN F /\ F[folder].kind = "dir"

\* p.is_file() and p.suffix.lower() in IMAGE_EXTS
IsImageFile(F, p) ==
    /\ F[p].kind # "dir"
    /\ lower(PathSuffix(p[Len(p)])) \in IMAGE_EXTS

\* find_images(folder, recursive): folder.rglob("*") or folder.iterdir()
find_images(F, folder, recursive) ==
    { p \in DOMAIN F :
        /\ IF recursive THEN IsUnder(p, folder) /\ p # folder
           ELSE Parent(p) = folder
        /\ IsImageFile(F, p) }

\* make_webp(src, dest, quality): Image.open raises on a file that is no
\* image, before anything is written; otherwise dest holds the WEBP
make_webp(F, src, dest, quality) ==
    IF F[src].kind = "image"
    THEN [raised |-> FALSE, fs |-> (dest :> Webp(F[src], quality)) @@ F]
    ELSE [raised |-> TRUE, fs |-> F]

\* python generate_webp.py --dirs ... [--recursive] [--force]
WebpInit ==
    /\ wp_pc = "dirs"
    /\ wp_run = 1
    /\ wp_args \in [dirs : SeqsUpTo({Gallery, GallerySub, Staff}, MaxDirs)
                              \ {<<>>},
                    recursive : BOOLEAN, force : BOOLEAN]
    /\ wp_fs \in WebpFilesystems
    /\ wp_fs0 = wp_fs
    /\ wp_fs1 = <<>>
    /\ wp_todo = wp_args.dirs
    /\ wp_files = {}
    /\ wp_total = 0
    /\ wp_created = 0
    /\ RunIdle
    /\ RewriteIdle

\* lines 72-76: a folder that is missing is skipped with a warning
WebpSkipFolder ==
    /\ wp_pc = "dirs" /\ wp_todo # <<>>
    /\ ~IsDir(wp_fs, Head(wp_todo))
    /\ wp_todo' = Tail(wp_todo)
    /\ UNCHANGED <<wp_pc, wp_run, wp_args, wp_fs, wp_fs0, wp_fs1, wp_files,
                   wp_total, wp_created, run_vars, rw_vars>>

\* lines 77-78: the images of the folder are listed, once
WebpScan ==
    /\ wp_pc = "dirs" /\ wp_todo # <<>>
    /\ IsDir(wp_fs, Head(wp_todo))
    /\ wp_files' = find_images(wp_fs, Head(wp_todo), wp_args.recursive)
    /\ wp_todo' = Tail(wp_todo)
    /\ wp_pc' = IF wp_files' = {} THEN "dirs" ELSE "files"
    /\ UNCHANGED <<wp_run, wp_args, wp_fs, wp_fs0, wp_fs1, wp_total,
                   wp_created, run_vars, rw_vars>>

\* lines 79-84: the next image, in the order the directory gives them, has
\* its .webp already and --force is not given
WebpSkip ==
    /\ wp_pc = "files"
    /\ \E src \in wp_files :
          /\ with_suffix(src, <<".", "webp">>) \in DOMAIN wp_fs
          /\ ~wp_args.force
          /\ wp_files' = wp_files \ {src}
    /\ wp_total' = wp_total + 1
    /\ wp_pc' = IF wp_files' = {} THEN "dirs" ELSE "files"
    /\ UNCHANGED <<wp_run, wp_args, wp_fs, wp_fs0, wp_fs1, wp_todo,
                   wp_created, run_vars, rw_vars>>

\* the .webp of the next image is written whether or not it is there
WebpCreateAlways ==
    /\ wp_pc = "files"
    /\ \E src \in wp_files :
          LET dest == with_suffix(src, <<".", "webp">>)
              made == make_webp(wp_fs, src, dest, Quality)
          IN  /\ ~made.raised
              /\ wp_fs' = made.fs
              /\ wp_files' = wp_files \ {src}
    /\ wp_total' = wp_total + 1
    /\ wp_created' = wp_created + 1
    /\ wp_pc' = IF wp_files' = {} THEN "dirs" ELSE "files"
    /\ UNCHANGED <<wp_run, wp_args, wp_fs0, wp_fs1, wp_todo, run_vars,
                   rw_vars>>

\* lines 79-88: the .webp of the next image is written
WebpCreate ==
    /\ wp_pc = "files"
    /\ \E src \in wp_files :
          LET dest == with_suffix(src, <<".", "webp">>)
              made == make_webp(wp_fs, src, dest, Quality)
          IN  /\ dest \notin DOMAIN wp_fs \/ wp_args.force
              /\ ~made.raised
              /\ wp_fs' = made.fs
              /\ wp_files' = wp_files \ {src}
    /\ wp_total' = wp_total + 1
    /\ wp_created' = wp_created + 1
    /\ wp_pc' = IF wp_files' = {} THEN "dirs" ELSE "files"
    /\ UNCHANGED <<wp_run, wp_args, wp_fs0, wp_fs1, wp_todo, run_vars,
                   rw_vars>>

\* lines 85-90: make_webp raises, the failure is printed
WebpFail ==
    /\ wp_pc = "files"
    /\ \E src \in wp_files :
          LET dest == with_suffix(src, <<".", "webp">>)
              made == make_webp(wp_fs, src, dest, Quality)
          IN  /\ dest \notin DOMAIN wp_fs \/ wp_args.force
              /\ made.raised
              /\ wp_fs' = made.fs
              /\ wp_files' = wp_files \ {src}
    /\ wp_total' = wp_total + 1
    /\ wp_pc' = IF wp_files' = {} THEN "dirs" ELSE "files"
    /\ UNCHANGED <<wp_run, wp_args, wp_fs0, wp_fs1, wp_todo, wp_created,
                   run_vars, rw_vars>>

\* lines 92-93
WebpDone ==
    /\ wp_pc = "dirs" /\ wp_todo = <<>>
    /\ wp_pc' = "done"
    /\ UNCHANGED <<wp_run, wp_args, wp_fs, wp_fs0, wp_fs1, wp_todo, wp_files,
                   wp_total, wp_created, run_vars, rw_vars>>

\* the script is run again over the same directories, with or without
\* --force
WebpAgain ==
    /\ wp_pc = "done" /\ wp_run = 1
    /\ wp_run' = 2
    /\ wp_fs1' = wp_fs
    /\ \E force \in BOOLEAN : wp_args' = [wp_args EXCEPT !.force = force]
    /\ wp_todo' = wp_args.dirs
    /\ wp_total' = 0
    /\ wp_created' = 0
    /\ wp_pc' = "dirs"
    /\ UNCHANGED <<wp_fs, wp_fs0, wp_files, run_vars, rw_vars>>

WebpNext ==
    \/ WebpSkipFolder \/ WebpScan \/ WebpSkip \/ WebpCreate \/ WebpFail
    \/ WebpDone \/ WebpAgain

SpecWebp == WebpInit /\ [][WebpNext]_vars

(***************************************************************************)
(* C1: the rewriter leaves every src/href attribute unmodified whose value *)
(* is recognised as remote (http://, https://, //, mailto:, tel:, #),      *)
(* also when its base name is the base name of a mapping key.              *)
(***************************************************************************)
C1_RemoteLeftUnmodified ==
    rw_pc # "start" =>
        \A i \in 1..Len(rw_html) :
            is_remote(rw_html[i].val) => rw_once[i] = rw_html[i]

(***************************************************************************)
(* C3: rewriting is idempotent: rewriting the rewritten fragment with the  *)
(* same mapping gives the rewritten fragment, also when two keys in        *)
(* different directories share a base name.                                *)
(***************************************************************************)
C3_RewriteIdempotent ==
    rw_pc = "twice" => rw_twice = rw_once

(***************************************************************************)
(* What the claims speak of.                                               *)
(***************************************************************************)
AssetsPrefix == <<PHP, "/", "assets", "/">>

DoubleAssets == <<"/", "assets", "/", "assets", "/">>

HeaderPhp == ThemeFile(<<"header", ".", "php">>)

FooterPhp == ThemeFile(<<"footer", ".", "php">>)

IndexPhp == ThemeFile(<<"index", ".", "php">>)

FunctionsPhp == ThemeFile(<<"functions", ".", "php">>)

StyleCss == ThemeFile(<<"style", ".", "css">>)

\* the head, header, main and footer fragments as the theme files hold them
EmittedFragments ==
    << fs[HeaderPhp].head, fs[HeaderPhp].header, fs[IndexPhp].main,
       fs[FooterPhp].footer >>

\* the serialisations they were made from (the head without its outer tags)
SourceFragments ==
    LET head == Ser(<<Find(soup, "head")>>)
    IN  << SubSeq(head, 2, Len(head) - 1), Ser(HeaderSource(soup)),
           Ser(MainSource(soup)), Ser(FooterSource(soup)) >>

\* the files below a directory, with their contents, and the directories
FilesUnder(F, root) == [p \in {q \in DOMAIN F : IsUnder(q, root)} |-> F[p]]

DirsUnder(D, root) == {d \in D : IsUnder(d, root)}

(***************************************************************************)
(* C2: in the theme a run has written, every src/href attribute whose      *)
(* value is a key of the run's mapping has the value                       *)
(* PHP prefix + "/assets/" + mapped path, and no fragment (head, header,   *)
(* main, footer) holds "/assets/assets/".                                  *)
(***************************************************************************)
C2_RewrittenToAssetsPath ==
    pc = "done" =>
        \A f \in 1..4 :
            \A i \in 1..Len(SourceFragments[f]) :
                LET src == SourceFragments[f][i]
                    out == EmittedFragments[f][i]
                IN  src.kind = "attr" =>
                        /\ HasKey(mapping, LookupKey(src.val)) =>
                              out.val = AssetsPrefix
                                          \o Lookup(mapping, LookupKey(src.val))
                        /\ ~contains(out.val, DoubleAssets)

(***************************************************************************)
(* C4 as claimed: a run on a site without index.html ends in a             *)
(* FileNotFoundError with no destination directory and nothing created,    *)
(* whatever the destination was and whatever the prompt was answered.      *)
(***************************************************************************)
NoIndex == IndexHtml \notin DOMAIN fs0

\* the answers that allow the deletion
Yes == {<<"y">>, <<"Y">>}

Ended == pc \in {"cancelled", "raised", "done"}

NoDestination ==
    /\ DirsUnder(dirs, OutDir) = {}
    /\ DOMAIN FilesUnder(fs, OutDir) = {}

C4_MissingIndexAlwaysFileNotFound ==
    (NoIndex /\ Ended) => (error = "FileNotFoundError" /\ NoDestination)

(***************************************************************************)
(* C4 as amended: a run on a site without index.html creates nothing.  It  *)
(* ends in a FileNotFoundError with no destination directory when the      *)
(* destination did not exist or the prompt was answered y or Y; when the   *)
(* destination existed and the prompt was answered otherwise (or the input *)
(* ended), generate_theme is not called, no FileNotFoundError is raised    *)
(* and the filesystem is as it was.                                        *)
(***************************************************************************)
C4_MissingIndex ==
    NoIndex =>
        /\ DOMAIN fs \subseteq DOMAIN fs0
        /\ dirs \subseteq dirs0
        /\ \A p \in DOMAIN fs : fs[p] = fs0[p]
        /\ Ended =>
              \/ /\ error = "FileNotFoundError"
                 /\ NoDestination
                 /\ OutDir \in dirs0 => confirm \in Yes
              \/ /\ OutDir \in dirs0
                 /\ confirm \notin Yes
                 /\ ~called
                 /\ error # "FileNotFoundError"
                 /\ fs = fs0 /\ dirs = dirs0

\* the destination existed, the answer was y, and the run ended in the
\* FileNotFoundError with the destination gone
C4_Witness ==
    /\ NoIndex /\ OutDir \in dirs0 /\ confirm = <<"y">>
    /\ pc = "raised" /\ error = "FileNotFoundError" /\ NoDestination

(***************************************************************************)
(* C5: every file copy_assets creates or overwrites lies under the         *)
(* destination asset root, and the step leaves every file outside the      *)
(* destination directory as it was: none created, modified or deleted.     *)
(***************************************************************************)
C5_CopyStaysUnderAssetRoot ==
    [][pc = "copy" =>
          /\ \A i \in 1..Len(copied') : IsUnder(copied'[i].v, AssetsDir)
          /\ \A p \in DOMAIN fs \cup DOMAIN fs' :
                ~IsUnder(p, OutDir) =>
                    p \in DOMAIN fs /\ p \in DOMAIN fs' /\ fs'[p] = fs[p]]_vars

(***************************************************************************)
(* C6: an existing destination is deleted only after the prompt was        *)
(* answered y or Y; on any other answer the run ends as cancelled, the     *)
(* filesystem as it was and generate_theme not called; without a           *)
(* destination there is no prompt and generate_theme is called.            *)
(***************************************************************************)
C6_OverwriteNeedsYes ==
    /\ pc = "rmtree" => confirm \in Yes
    /\ (OutDir \in dirs0 /\ (FilesUnder(fs, OutDir) # FilesUnder(fs0, OutDir)
                             \/ DirsUnder(dirs, OutDir) # DirsUnder(dirs0, OutDir)))
          => confirm \in Yes
    /\ (confirm \in Answers /\ confirm \notin Yes)
          => /\ pc = "cancelled" /\ "Cancelled" \in printed
             /\ ~called
             /\ fs = fs0 /\ dirs = dirs0
    /\ confirm \in Yes
          => pc # "cancelled" /\ (pc # "rmtree" => called)
    /\ OutDir \notin dirs0
          => confirm = NotAsked /\ (pc # "main" => called)

\* the prompt was answered Y and the destination has been deleted
C6_Witness ==
    /\ OutDir \in dirs0 /\ confirm = <<"Y">>
    /\ pc = "generate_theme" /\ NoDestination

(***************************************************************************)
(* C7 as claimed: for a body that holds a header, a main and a footer      *)
(* around H, M and F, the three fragments are H, M and F (taken as the     *)
(* content of the element, or as the element itself).                      *)
(***************************************************************************)
Fragmented == pc \in {"emit", "pages", "done"}

\* the element children of the body
BodyElements == SelectSeq(Body(soup).kids, LAMBDA el : el.kind = "elem")

\* the body's children are a header, a main and a footer, and white space
HeaderMainFooter ==
    /\ Body(soup) # NoNode
    /\ [i \in 1..Len(BodyElements) |-> BodyElements[i].tag]
          = <<"header", "main", "footer">>
    /\ \A i \in 1..Len(Body(soup).kids) :
          Body(soup).kids[i].kind \in {"elem", "ws"}

C7_FragmentsAreContents ==
    (Fragmented /\ HeaderMainFooter) =>
        /\ header_html \in {Ser(BodyElements[1].kids), Ser(<<BodyElements[1]>>)}
        /\ main_html \in {Ser(BodyElements[2].kids), Ser(<<BodyElements[2]>>)}
        /\ footer_html \in {Ser(BodyElements[3].kids), Ser(<<BodyElements[3]>>)}

(***************************************************************************)
(* C7 as amended: each of the three fragments is the serialisation, outer  *)
(* tags included and asset references rewritten, of the element of its tag *)
(* that comes first in the body in document order: the body's own header,  *)
(* main or footer child unless an earlier child holds a nested one.        *)
(***************************************************************************)
\* where the element with this id opens in the body's serialisation
OpensAt(id) ==
    LET items == Ser(Body(soup).kids)
    IN  CHOOSE i \in 1..Len(items) : items[i].kind = "open" /\ items[i].id = id

\* the elements of a tag anywhere in the body
Tagged(tag) ==
    LET all == Preorder(Body(soup).kids)
    IN  {all[i] : i \in {j \in 1..Len(all) : all[j].tag = tag}}

\* a fragment is the rewritten serialisation of the first element of its tag
IsFirstOf(fragment, tag) ==
    \E el \in Tagged(tag) :
        /\ \A other \in Tagged(tag) : OpensAt(el.id) <= OpensAt(other.id)
        /\ fragment = replace_asset_paths_in_html(Ser(<<el>>), mapping)
        /\ (\A k \in 1..Len(BodyElements) :
               BodyElements[k].tag # tag =>
                   \A inner \in Tagged(tag) :
                       OpensAt(inner.id) < OpensAt(BodyElements[k].id))
              => el \in {BodyElements[k] : k \in 1..Len(BodyElements)}

C7_FragmentsAreFirstElements ==
    (Fragmented /\ HeaderMainFooter) =>
        /\ IsFirstOf(header_html, "header")
        /\ IsFirstOf(main_html, "main")
        /\ IsFirstOf(footer_html, "footer")

\* the fragments of a header, main, footer body whose main holds a
\* reference that was rewritten
C7_Witness ==
    /\ Fragmented /\ HeaderMainFooter
    /\ \E i \in 1..Len(main_html) :
          main_html[i].kind = "attr" /\ startswith(main_html[i].val, AssetsPrefix)

(***************************************************************************)
(* C8: after copy_assets and the normalisation every mapping value is      *)
(* relative to the destination asset root: no leading slash, no leading    *)
(* "assets/" or output directory segment, and the file copied for its key  *)
(* is at <destination asset root>/value.                                   *)
(***************************************************************************)
C8_ValuesRelativeToAssetRoot ==
    pc \in {"head", "body", "emit", "pages", "done"} =>
        \A i \in 1..Len(mapping) :
            LET v == mapping[i].v
            IN  /\ ~startswith(v, <<"/">>)
                /\ ~startswith(v, <<"assets", "/">>)
                /\ ~startswith(v, <<OutName, "/">>)
                /\ copied[i].k = mapping[i].k
                /\ Resolve(AssetsDir \o PathParts(v), dirs) = copied[i].v

(***************************************************************************)
(* C9: functions.php has an enqueue line for every copied asset whose      *)
(* extension, compared without case as the locator does, is .css or .js,   *)
(* with the asset's mapped path, and no enqueue line for any other asset.  *)
(***************************************************************************)
C9_EnqueuesEveryStylesheetAndScript ==
    pc = "done" =>
        LET lines == fs[FunctionsPhp].enqueue
            Ext(k) == lower(PathSuffix(k))
        IN  /\ \A i \in 1..Len(mapping) :
                  /\ Ext(mapping[i].k) = <<".", "css">> =>
                        \E n \in 1..Len(lines) :
                            /\ lines[n].fn = "wp_enqueue_style"
                            /\ lines[n].path = mapping[i].v
                  /\ Ext(mapping[i].k) = <<".", "js">> =>
                        \E n \in 1..Len(lines) :
                            /\ lines[n].fn = "wp_enqueue_script"
                            /\ lines[n].path = mapping[i].v
            /\ \A n \in 1..Len(lines) :
                  \E i \in 1..Len(mapping) :
                      /\ lines[n].path = mapping[i].v
                      /\ Ext(mapping[i].k) \in {<<".", "css">>, <<".", "js">>}

(***************************************************************************)
(* C10: with package.json present, a failed build (npm install, the npm    *)
(* build scripts or npx, by exit status or by another exception) is only   *)
(* a warning: the run does not abort, it collects and copies the assets    *)
(* and writes style.css, functions.php, header.php, footer.php, index.php. *)
(***************************************************************************)
BuildFailed ==
    printed \cap (BuildWarning("exit") \cup BuildWarning("exception")) # {}

C10_BuildFailureIsOnlyAWarning ==
    /\ (BuildFailed /\ pc # "build") => pc # "raised"
    /\ (BuildFailed /\ Ended) =>
          /\ pc = "done"
          /\ {StyleCss, FunctionsPhp, HeaderPhp, FooterPhp, IndexPhp}
                \subseteq DOMAIN fs

(***************************************************************************)
(* C11: a second run of generate_webp without --force over the same        *)
(* directories creates no file and modifies none (created count 0); no run *)
(* modifies or deletes an original image; and a .webp is written only when *)
(* it does not exist yet or --force is given.                              *)
(***************************************************************************)
\* the images the script converts: the files with an image extension
Originals == {p \in DOMAIN wp_fs0 : IsImageFile(wp_fs0, p)}

C11_WebpIdempotent ==
    /\ [](/\ (wp_run = 2 /\ ~wp_args.force) =>
                 wp_fs = wp_fs1 /\ wp_created = 0
          /\ \A p \in Originals : p \in DOMAIN wp_fs /\ wp_fs[p] = wp_fs0[p])
    /\ [][wp_fs' # wp_fs =>
            \E src \in wp_files :
                LET dest == with_suffix(src, <<".", "webp">>)
                IN  /\ dest \notin DOMAIN wp_fs \/ wp_args.force
                    /\ DOMAIN wp_fs' = DOMAIN wp_fs \cup {dest}
                    /\ wp_fs'[dest].kind = "webp"
                    /\ \A p \in DOMAIN wp_fs \ {dest} : wp_fs'[p] = wp_fs[p]]_vars

\* a second run without --force has ended, after a first run that wrote a
\* .webp, and it has looked at images
C11_Witness ==
    /\ wp_run = 2 /\ ~wp_args.force /\ wp_pc = "done"
    /\ wp_fs1 # wp_fs0 /\ wp_total > 0

(***************************************************************************)
(* C12: the locator normalises a reference value v by removing one leading *)
(* "./" and nothing else, and resolves root/v': the assets it returns are  *)
(* the existing files root/v' of the local values with an asset extension, *)
(* so a value that begins with "../" or "/", or a dot-prefixed file name,  *)
(* does not become another path inside the root.                           *)
(***************************************************************************)
\* v without one leading "./"
StripDotSlash(v) ==
    IF startswith(v, <<".", "/">>) THEN SubSeq(v, 3, Len(v)) ELSE v

\* root / v': an absolute v' replaces the root
RootJoin(v) ==
    IF startswith(v, <<"/">>) THEN PathParts(v) ELSE SiteDir \o PathParts(v)

C12_OnlyLeadingDotSlashStripped ==
    pc = "copy" =>
        assets = { RootJoin(StripDotSlash(v)) :
                     v \in { w \in RefValues(soup) :
                               /\ ~is_remote(w)
                               /\ lower(PathSuffix(StripDotSlash(w))) \in ASSET_EXTS
                               /\ Exists(RootJoin(StripDotSlash(w)), fs, dirs) } }

(***************************************************************************)
(* C13: for an index.html without a body element, with or without a head,  *)
(* generate_theme completes (no exception ends it) and the main fragment   *)
(* is the rewritten serialisation of the entire document, the header and   *)
(* footer fragments being empty.                                           *)
(***************************************************************************)
\* index.html has been parsed and has no body element
ParsedWithoutBody ==
    /\ pc \notin {"idle", "main", "rmtree", "cancelled", "generate_theme"}
    /\ IndexHtml \in DOMAIN fs0
    /\ Body(soup) = NoNode

C13_NoBodyWholeDocumentIsMain ==
    ParsedWithoutBody =>
        /\ pc # "raised"
        /\ Fragmented =>
              /\ main_html = replace_asset_paths_in_html(Ser(soup), mapping)
              /\ header_html = <<>>
              /\ footer_html = <<>>

(***************************************************************************)
(* C14: the rewriter replaces a value whose normalised form is a key of    *)
(* the mapping by that key's own value, also when an earlier entry has the *)
(* same base name; a value without an exact key by the value of the first  *)
(* entry, in insertion order, with the value's base name; and it returns   *)
(* the attribute unchanged when there is neither.                          *)
(***************************************************************************)
\* the entries whose key is the normalised value
ExactEntries(val) ==
    {j \in 1..Len(rw_map) : rw_map[j].k = LookupKey(val)}

\* the entries whose file has the base name of the normalised value
BasenameEntries(val) ==
    {j \in 1..Len(rw_map) : PathName(rw_map[j].k) = PathName(LookupKey(val))}

C14_ExactThenFirstBasename ==
    rw_pc # "start" =>
        \A i \in 1..Len(rw_html) :
            LET m == rw_html[i]
                exact == ExactEntries(m.val)
                base == BasenameEntries(m.val)
            IN  IF exact # {}
                THEN /\ \A j \in exact :
                           rw_once[i].val = AssetsPrefix \o rw_map[j].v
                     /\ rw_once[i].attr = m.attr
                ELSE IF base # {}
                THEN /\ \E j \in base :
                           /\ \A n \in base : j <= n
                           /\ rw_once[i].val = AssetsPrefix \o rw_map[j].v
                     /\ rw_once[i].attr = m.attr
                ELSE rw_once[i] = m

\* a fragment rewritten in which one value is the key of the second entry
\* while the first entry has its base name, and another value has no exact
\* key and the base name of two entries
C14_Witness ==
    /\ rw_pc = "once"
    /\ \E i \in 1..Len(rw_html) :
          /\ ExactEntries(rw_html[i].val) = {2}
          /\ BasenameEntries(rw_html[i].val) = {1, 2}
    /\ \E i \in 1..Len(rw_html) :
          /\ ExactEntries(rw_html[i].val) = {}
          /\ BasenameEntries(rw_html[i].val) = {1, 2}

(***************************************************************************)
(* C15: the header, main and footer fragments are disjoint: no element of  *)
(* the body is emitted in more than one of them, whichever of the header,  *)
(* main and footer tags are present, at the top level or nested in main.   *)
(***************************************************************************)
\* the elements a fragment holds
ElementsIn(fragment) ==
    {fragment[i].id : i \in {j \in 1..Len(fragment) : fragment[j].kind = "open"}}

C15_FragmentsDisjoint ==
    (Fragmented /\ Body(soup) # NoNode) =>
        /\ ElementsIn(header_html) \cap ElementsIn(main_html) = {}
        /\ ElementsIn(header_html) \cap ElementsIn(footer_html) = {}
        /\ ElementsIn(main_html) \cap ElementsIn(footer_html) = {}

====
